---- MODULE Spec2Model ----
(***************************************************************************)
(* A model of the RSA key-pair layer of aws-c-cal: the dispatch layer of   *)
(* source/rsa.c and the Security.framework backend of                      *)
(* source/darwin/securityframework_rsa.c.                                  *)
(*                                                                         *)
(* One key-pair object is followed from construction to teardown.  Every   *)
(* C function is an operator that returns what the function returns, the   *)
(* error it raises and the sequence of events (provider objects created    *)
(* and released, provider primitives called, buffers initialised and       *)
(* cleaned) it performs, in program order.  The actions apply these        *)
(* operators to the object and to inputs drawn from small sets.            *)
(*                                                                         *)
(* Spec is the sequential program.  SpecThreads is the object's lifetime   *)
(* with several threads acquiring and releasing references.  SpecDer runs  *)
(* the two PKCS1 mappers of rsa.c on token streams.                        *)
(***************************************************************************)
EXTENDS Integers, Sequences, FiniteSets, TLC

VARIABLES
    kp,            \* the key-pair object (struct sec_rsa_key_pair with its base)
    last,          \* what the last call did: inputs, return value, the error
                   \* it raised ("none": the thread's last error is left as
                   \* it was), events
    pss_available, \* __builtin_available(macos 10.13, ...) on the running system
    holders,       \* per thread, the references to the object it holds
    teardowns,     \* the times aws_rsa_key_pair_destroy has run on the object
    decoder,       \* a DER decoder: its nodes, its cursor, the nodes read
    out            \* the struct s_rsa_private_key_pkcs1 the mappers fill

vars == <<kp, last, pss_available, holders, teardowns, decoder, out>>

----------------------------------------------------------------------------
(* Bounds of the model *)

\* key sizes tried: MIN + 8k for k in 0..MaxSizeSteps, and MAX
MaxSizeSteps == 1
\* buffer lengths tried: within MaxSlack of 0, of the block size and of the
\* maximal plaintext size
MaxSlack == 1
\* references held at once
MaxRefs == 2
\* threads that hold references
MaxThreads == 2
\* nodes that follow the last node of a key in a token stream
MaxTrailing == 1

----------------------------------------------------------------------------
(* Constants of the program *)

AWS_CAL_RSA_MIN_SUPPORTED_KEY_SIZE == 1024
AWS_CAL_RSA_MAX_SUPPORTED_KEY_SIZE == 4096

EncryptionAlgorithms ==
    {"AWS_CAL_RSA_ENCRYPTION_PKCS1_5", "AWS_CAL_RSA_ENCRYPTION_OAEP_SHA256",
     "AWS_CAL_RSA_ENCRYPTION_OAEP_SHA512"}
\* a value of enum aws_rsa_encryption_algorithm that no case names
UnknownEncryptionAlgorithm == "ENCRYPTION_ALGORITHM_OTHER"
AnyEncryptionAlgorithm == EncryptionAlgorithms \cup {UnknownEncryptionAlgorithm}

SigningAlgorithms ==
    {"AWS_CAL_RSA_SIGNATURE_PKCS1_5_SHA256", "AWS_CAL_RSA_SIGNATURE_PSS_SHA256"}
UnknownSigningAlgorithm == "SIGNING_ALGORITHM_OTHER"
AnySigningAlgorithm == SigningAlgorithms \cup {UnknownSigningAlgorithm}

----------------------------------------------------------------------------
(* size_t arithmetic.                                                      *)
(* A size_t value v is represented by the integer r nearest to zero with   *)
(* r = v modulo 2^w (w the width of size_t): 0 is 0, SIZE_MAX is -1,       *)
(* SIZE_MAX - 1 is -2.  Addition and subtraction of the small numbers used *)
(* here are then the integer ones, wrap-around included                    *)
(* (128 - 130 = -2 = SIZE_MAX - 1 and SIZE_MAX + 1 = -1 + 1 = 0), and the  *)
(* unsigned order is SizeLess.                                             *)

SizeLess(a, b) ==
    IF (a >= 0) = (b >= 0) THEN a < b ELSE b < 0

----------------------------------------------------------------------------
(* DER blobs: a PKCS1 encoding is the sequence of its nodes; a node is its *)
(* tag, the length of its content and the first content byte.              *)

Node(tag, len, byte0) == [tag |-> tag, len |-> len, byte0 |-> byte0]
SequenceNode == Node("SEQUENCE", 0, 0)
IntegerNode(len, byte0) == Node("INTEGER", len, byte0)

EmptyBuf == << >>

\* RSAPrivateKey ::= SEQUENCE { version, n, e, d, p, q, dP, dQ, qInv }
PrivateKeyBlob(bits, version) ==
    << SequenceNode,
       IntegerNode(1, version),
       IntegerNode(bits \div 8, 1),
       IntegerNode(3, 1),
       IntegerNode(bits \div 8, 1),
       IntegerNode(bits \div 16, 1),
       IntegerNode(bits \div 16, 1),
       IntegerNode(bits \div 16, 1),
       IntegerNode(bits \div 16, 1),
       IntegerNode(bits \div 16, 1) >>

\* RSAPublicKey ::= SEQUENCE { n, e }
PublicKeyBlob(bits) ==
    << SequenceNode, IntegerNode(bits \div 8, 1), IntegerNode(3, 1) >>

\* the blob with its last INTEGER node dropped
Truncated(blob) == SubSeq(blob, 1, Len(blob) - 1)

AllIntegers(blob, from, to) ==
    \A i \in from..to : blob[i].tag = "INTEGER" /\ blob[i].len > 0

----------------------------------------------------------------------------
(* The DER decoder, as far as the mappers rely on it: idx counts the calls *)
(* of aws_der_decoder_next, the current node is the idx-th, and `examined` *)
(* lists the nodes whose tag or content was read, in order.                *)

NewDecoder(tokens) == [tokens |-> tokens, idx |-> 0, examined |-> << >>]
NoDecoder == NewDecoder(<< >>)

\* a byte cursor into the decoder's buffer: the node it views, its length
\* and first byte
NoView == [node |-> 0, len |-> 0, byte0 |-> 0]

aws_der_decoder_next(d) ==
    LET nd == [d EXCEPT !.idx = @ + 1]
    IN  [ok |-> nd.idx <= Len(d.tokens), d |-> nd]

aws_der_decoder_tlv_type(d) ==
    [type |-> d.tokens[d.idx].tag,
     d |-> [d EXCEPT !.examined = Append(@, d.idx)]]

\* fails on a node that is not an INTEGER
aws_der_decoder_tlv_integer(d) ==
    LET tok == d.tokens[d.idx]
        nd == [d EXCEPT !.examined = Append(@, d.idx)]
    IN  IF tok.tag = "INTEGER"
        THEN [ret |-> "OK", d |-> nd,
              cur |-> [node |-> d.idx, len |-> tok.len, byte0 |-> tok.byte0]]
        ELSE [ret |-> "ERR", d |-> nd, cur |-> NoView]

----------------------------------------------------------------------------
(* The PKCS1 mappers (rsa.c).  A mapper's run is threaded through a record *)
(* st: the decoder, the out struct, the local version_cur, and ret, which  *)
(* is "RUN" until the function returns.                                    *)

\* the out struct before a mapper has written to it (its version holds a
\* value other than 0)
EmptyKey ==
    [version |-> 0 - 1, modulus |-> NoView, publicExponent |-> NoView,
     privateExponent |-> NoView, prime1 |-> NoView, prime2 |-> NoView,
     exponent1 |-> NoView, exponent2 |-> NoView, coefficient |-> NoView]

Start(d, o) ==
    [d |-> d, out |-> o, version_cur |-> NoView, ret |-> "RUN", raised |-> "none"]

Raise(st, d, error) == [st EXCEPT !.d = d, !.ret = "ERR", !.raised = error]

\* if (!next || tlv_type != AWS_DER_SEQUENCE) return raise MALFORMED_ASN1
ReadSequence(st) ==
    IF st.ret # "RUN" THEN st
    ELSE LET n == aws_der_decoder_next(st.d)
         IN  IF ~n.ok
             THEN Raise(st, n.d, "AWS_ERROR_CAL_MALFORMED_ASN1_ENCOUNTERED")
             ELSE LET t == aws_der_decoder_tlv_type(n.d)
                  IN  IF t.type # "SEQUENCE"
                      THEN Raise(st, t.d, "AWS_ERROR_CAL_MALFORMED_ASN1_ENCOUNTERED")
                      ELSE [st EXCEPT !.d = t.d]

\* if (!next || tlv_integer(decoder, &field)) return raise MALFORMED_ASN1
ReadInteger(st, field) ==
    IF st.ret # "RUN" THEN st
    ELSE LET n == aws_der_decoder_next(st.d)
         IN  IF ~n.ok
             THEN Raise(st, n.d, "AWS_ERROR_CAL_MALFORMED_ASN1_ENCOUNTERED")
             ELSE LET i == aws_der_decoder_tlv_integer(n.d)
                  IN  IF i.ret # "OK"
                      THEN Raise(st, i.d, "AWS_ERROR_CAL_MALFORMED_ASN1_ENCOUNTERED")
                      ELSE IF field = "version_cur"
                      THEN [st EXCEPT !.d = i.d, !.version_cur = i.cur]
                      ELSE [st EXCEPT !.d = i.d, !.out[field] = i.cur]

RECURSIVE ReadIntegers(_, _)
ReadIntegers(st, fields) ==
    IF fields = << >> THEN st
    ELSE ReadIntegers(ReadInteger(st, Head(fields)), Tail(fields))

\* if (version_cur.len != 1 || version_cur.ptr[0] != 0) return raise ...;
\* out->version = 0;
CheckVersion(st) ==
    IF st.ret # "RUN" THEN st
    ELSE IF st.version_cur.len # 1 \/ st.version_cur.byte0 # 0
    THEN Raise(st, st.d, "AWS_ERROR_CAL_UNSUPPORTED_KEY_FORMAT")
    ELSE [st EXCEPT !.out.version = 0]

\* return AWS_OP_SUCCESS
Return(st) == [st EXCEPT !.ret = IF @ = "RUN" THEN "OK" ELSE @]

\* the fields after the version, in the order the function reads them
PrivateFields ==
    << "modulus", "publicExponent", "privateExponent", "prime1", "prime2",
       "exponent1", "exponent2", "coefficient" >>
PublicFields == << "modulus", "publicExponent" >>

LoadPrivate(d, o, fields) ==
    Return(ReadIntegers(
               CheckVersion(ReadInteger(ReadSequence(Start(d, o)), "version_cur")),
               fields))

\* a faulty variant of the private mapper: the two primes are read in the
\* other order
aws_der_decoder_load_private_rsa_pkcs1_primes_swapped(d, o) ==
    LoadPrivate(d, o,
                << "modulus", "publicExponent", "privateExponent", "prime2", "prime1",
                   "exponent1", "exponent2", "coefficient" >>)

aws_der_decoder_load_private_rsa_pkcs1(d, o) == LoadPrivate(d, o, PrivateFields)

aws_der_decoder_load_public_rsa_pkcs1(d, o) ==
    Return(ReadIntegers(ReadSequence(Start(d, o)), PublicFields))

----------------------------------------------------------------------------
(* The provider (Security.framework), as far as the backend relies on it.  *)

NullRef == [class |-> "NULL", bits |-> 0]
KeyRef(class, bits) == [class |-> class, bits |-> bits]

\* what SecKeyCreateWithData accepts for a key class
ProviderAccepts(blob, class) ==
    IF class = "private"
    THEN /\ Len(blob) = 10
         /\ blob[1].tag = "SEQUENCE"
         /\ AllIntegers(blob, 2, 10)
         /\ blob[2].len = 1 /\ blob[2].byte0 = 0
    ELSE /\ Len(blob) = 3
         /\ blob[1].tag = "SEQUENCE"
         /\ AllIntegers(blob, 2, 3)

\* the key SecKeyCreateWithData makes of an accepted blob
SecKeyCreateWithData(blob, class) ==
    IF class = "private" THEN KeyRef("private", 8 * blob[3].len)
    ELSE KeyRef("public", 8 * blob[2].len)

SecKeyCopyPublicKey(ref) == KeyRef("public", ref.bits)

SecKeyGetBlockSize(ref) == ref.bits \div 8

SecKeyCopyExternalRepresentation(ref) ==
    IF ref.class = "private" THEN PrivateKeyBlob(ref.bits, 0)
    ELSE PublicKeyBlob(ref.bits)

----------------------------------------------------------------------------
(* Events of a call, in program order *)

Ev(ev, obj) == [ev |-> ev, obj |-> obj, arg |-> "-"]
Call(primitive, arg) == [ev |-> "call", obj |-> primitive, arg |-> arg]
Seg(cond, evs) == IF cond THEN evs ELSE << >>

Count(trace, ev, obj) ==
    Cardinality({i \in 1..Len(trace) : trace[i].ev = ev /\ trace[i].obj = obj})

Has(trace, ev, obj) == Count(trace, ev, obj) > 0

\* the first position of an event, 0 when it is absent
FirstIndex(trace, ev, obj) ==
    IF Has(trace, ev, obj)
    THEN CHOOSE i \in 1..Len(trace) :
            /\ trace[i].ev = ev /\ trace[i].obj = obj
            /\ \A j \in 1..(i - 1) : ~(trace[j].ev = ev /\ trace[j].obj = obj)
    ELSE 0

Calls(trace) == {trace[i].obj : i \in {j \in 1..Len(trace) : trace[j].ev = "call"}}

----------------------------------------------------------------------------
(* The key-pair object *)

NoKeyPair ==
    [obj |-> "NULL", good |-> FALSE, key_size_in_bits |-> 0,
     priv |-> EmptyBuf, pub |-> EmptyBuf,
     priv_key_ref |-> NullRef, pub_key_ref |-> NullRef,
     cf_allocator |-> FALSE, vtable |-> FALSE, ref_count |-> 0,
     origin |-> "none"]

\* the object once its memory has gone back to the allocator
FreedKeyPair == [NoKeyPair EXCEPT !.obj = "freed"]

\* aws_mem_calloc of the struct, aws_ref_count_init, impl and allocator set
NewKeyPair(origin, cf_ok) ==
    [NoKeyPair EXCEPT !.obj = "live", !.ref_count = 1, !.cf_allocator = cf_ok,
                      !.origin = origin]

\* what a call reports
Result(op, ret, raised, trace) ==
    [op |-> op, ret |-> ret, raised |-> raised, trace |-> trace,
     alg |-> "-", len |-> 0, dispatched |-> FALSE, out_len |-> 0,
     view |-> EmptyBuf, input |-> EmptyBuf, fail |-> "-", ub |-> FALSE,
     before |-> NoKeyPair, thread |-> 0]

----------------------------------------------------------------------------
(* Teardown *)

\* the backend's destroy: releases the key handles, the allocator wrapper
\* and the memory of the object itself
s_rsa_destroy_key(k) ==
    Seg(k.pub_key_ref # NullRef, << Ev("release", "pub_key_ref") >>)
    \o Seg(k.priv_key_ref # NullRef, << Ev("release", "priv_key_ref") >>)
    \o Seg(k.cf_allocator, << Ev("release", "cf_allocator") >>)
    \o << Ev("mem_release", "key_pair") >>

\* a faulty variant of the on-zero callback: the backend's destroy runs
\* first, and the buffers are cleaned in memory already given back
aws_rsa_key_pair_destroy_backend_first(k) ==
    << Ev("dispatch", "destroy") >>
    \o s_rsa_destroy_key(k)
    \o << Ev("clean_up_secure", "priv"), Ev("clean_up_secure", "pub") >>

\* the reference count's on-zero callback
aws_rsa_key_pair_destroy(k) ==
    << Ev("clean_up_secure", "priv"), Ev("clean_up_secure", "pub"),
       Ev("dispatch", "destroy") >>
    \o s_rsa_destroy_key(k)

----------------------------------------------------------------------------
(* Random generation *)

GenSteps ==
    << "cf_allocator", "key_attributes", "cf_key_size", "keygen", "copy_public",
       "export_priv", "copy_priv", "export_pub", "copy_pub" >>

\* the steps of generation that can fail, and "none"
GenFailPoints == {GenSteps[i] : i \in 1..Len(GenSteps)} \cup {"none"}

GenStepIdx(step) ==
    IF step = "none" THEN Len(GenSteps) + 1
    ELSE CHOOSE i \in 1..Len(GenSteps) : GenSteps[i] = step

\* with the first failure at `fail`: the step ran and succeeded
Passed(step, fail) == GenStepIdx(step) < GenStepIdx(fail)

\* the error a failing step leaves raised
GenRaised(fail) ==
    CASE fail \in {"keygen", "copy_public", "export_priv", "export_pub"}
            -> "AWS_ERROR_SYS_CALL_FAILURE"
      [] fail \in {"copy_priv", "copy_pub"} -> "AWS_ERROR_OOM"
      [] OTHER -> "none"

aws_rsa_key_pair_new_generate_random(key_size_in_bits, fail) ==
    IF \/ key_size_in_bits < AWS_CAL_RSA_MIN_SUPPORTED_KEY_SIZE
       \/ key_size_in_bits > AWS_CAL_RSA_MAX_SUPPORTED_KEY_SIZE
       \/ key_size_in_bits % 8 # 0
    THEN [kp |-> NoKeyPair,
          res |-> [Result("generate", "NULL", "AWS_ERROR_INVALID_ARGUMENT", << >>)
                      EXCEPT !.len = key_size_in_bits, !.fail = "size"]]
    ELSE
    LET P(step) == Passed(step, fail)
        priv_ref == IF P("keygen") THEN KeyRef("private", key_size_in_bits)
                    ELSE NullRef
        pub_ref == IF P("copy_public") THEN SecKeyCopyPublicKey(priv_ref)
                   ELSE NullRef
        built ==
            [NewKeyPair("generate", P("cf_allocator")) EXCEPT
                !.priv_key_ref = priv_ref,
                !.pub_key_ref = pub_ref,
                !.priv = IF P("copy_priv")
                         THEN SecKeyCopyExternalRepresentation(priv_ref)
                         ELSE EmptyBuf,
                !.pub = IF P("copy_pub")
                        THEN SecKeyCopyExternalRepresentation(pub_ref)
                        ELSE EmptyBuf]
        \* what the variable sec_key_export_data holds at the end
        sec_key_export_data ==
            CASE P("export_pub") -> "pub_export_data"
              [] fail = "export_pub" -> "NULL"
              [] P("export_priv") -> "priv_export_data"
              [] OTHER -> "NULL"
        body ==
            << Ev("calloc", "key_pair") >>
            \o Seg(P("cf_allocator"), << Ev("create", "cf_allocator") >>)
            \o Seg(P("key_attributes"), << Ev("create", "key_attributes") >>)
            \o Seg(P("cf_key_size"),
                   << Ev("create", "cf_key_size"), Call("SecKeyCreateRandomKey", "-") >>)
            \o Seg(P("keygen"),
                   << Ev("create", "priv_key_ref"), Call("SecKeyCopyPublicKey", "private") >>)
            \o Seg(fail = "keygen", << Ev("create", "error"), Ev("release", "error") >>)
            \o Seg(P("copy_public"),
                   << Ev("create", "pub_key_ref"),
                      Call("SecKeyCopyExternalRepresentation", "private") >>)
            \o Seg(P("export_priv"), << Ev("create", "priv_export_data") >>)
            \o Seg(fail = "export_priv", << Ev("create", "error"), Ev("release", "error") >>)
            \o Seg(P("copy_priv"),
                   << Ev("init", "priv"),
                      Call("SecKeyCopyExternalRepresentation", "public") >>)
            \o Seg(P("export_pub"), << Ev("create", "pub_export_data") >>)
            \o Seg(fail = "export_pub", << Ev("create", "error"), Ev("release", "error") >>)
            \o Seg(P("copy_pub"), << Ev("init", "pub") >>)
        on_error ==
            Seg(P("key_attributes"), << Ev("release", "key_attributes") >>)
            \o Seg(sec_key_export_data # "NULL", << Ev("release", sec_key_export_data) >>)
            \o Seg(P("cf_key_size"), << Ev("release", "cf_key_size") >>)
            \o s_rsa_destroy_key(built)
        on_success ==
            << Ev("release", sec_key_export_data), Ev("release", "cf_key_size"),
               Ev("release", "key_attributes") >>
    IN  IF fail = "none"
        THEN [kp |-> [built EXCEPT !.vtable = TRUE,
                                   !.key_size_in_bits = key_size_in_bits],
              res |-> [Result("generate", "OBJ", "none", body \o on_success)
                          EXCEPT !.len = key_size_in_bits, !.fail = fail]]
        ELSE [kp |-> NoKeyPair,
              res |-> [Result("generate", "NULL", GenRaised(fail), body \o on_error)
                          EXCEPT !.len = key_size_in_bits, !.fail = fail]]

----------------------------------------------------------------------------
(* Import from PKCS1 bytes *)

ImportFailPoints == {"none", "data", "attributes", "provider"}

\* class is "private" or "public"; half names the buffer and the handle filled
ImportImpl(op, class, key, fail, pub_derived) ==
    LET rejected == fail = "provider" \/ (fail = "none" /\ ~ProviderAccepts(key, class))
        failed == IF rejected THEN "provider" ELSE fail
        buf == IF class = "private" THEN "priv" ELSE "pub"
        ref == IF class = "private" THEN "priv_key_ref" ELSE "pub_key_ref"
        data_made == failed # "data"
        attrs_made == failed \notin {"data", "attributes"}
        key_ref == SecKeyCreateWithData(key, class)
        built ==
            IF class = "private"
            THEN [NewKeyPair(op, TRUE) EXCEPT
                    !.priv = key,
                    !.priv_key_ref = IF failed = "none" THEN key_ref ELSE NullRef,
                    !.pub_key_ref = IF failed = "none" /\ pub_derived
                                    THEN SecKeyCopyPublicKey(key_ref) ELSE NullRef]
            ELSE [NewKeyPair(op, TRUE) EXCEPT
                    !.pub = key,
                    !.pub_key_ref = IF failed = "none" THEN key_ref ELSE NullRef]
        body ==
            << Ev("calloc", "key_pair"), Ev("create", "cf_allocator"), Ev("init", buf) >>
            \o Seg(data_made, << Ev("create", "key_data") >>)
            \o Seg(attrs_made,
                   << Ev("create", "key_attributes"), Call("SecKeyCreateWithData", class) >>)
            \o Seg(failed = "provider", << Ev("create", "error"), Ev("release", "error") >>)
            \o Seg(failed = "none", << Ev("create", ref) >>)
            \o Seg(failed = "none" /\ class = "private",
                   << Call("SecKeyCopyPublicKey", "private") >>)
            \o Seg(failed = "none" /\ class = "private" /\ pub_derived,
                   << Ev("create", "pub_key_ref") >>)
        on_error ==
            Seg(data_made, << Ev("release", "key_data") >>)
            \o Seg(attrs_made, << Ev("release", "key_attributes") >>)
            \o << Ev("clean_up_secure", "priv"), Ev("clean_up_secure", "pub") >>
            \o s_rsa_destroy_key(built)
        on_success ==
            << Ev("release", "key_attributes"), Ev("release", "key_data"),
               Call("SecKeyGetBlockSize", class) >>
    IN  IF failed = "none"
        THEN [kp |-> [built EXCEPT
                        !.vtable = TRUE,
                        !.key_size_in_bits = SecKeyGetBlockSize(key_ref) * 8],
              res |-> [Result(op, "OBJ", "none", body \o on_success)
                          EXCEPT !.input = key, !.fail = failed]]
        ELSE [kp |-> NoKeyPair,
              res |-> [Result(op, "NULL",
                              IF failed = "provider" THEN "AWS_ERROR_INVALID_ARGUMENT"
                              ELSE "none",
                              body \o on_error)
                          EXCEPT !.input = key, !.fail = failed]]

\* a faulty variant of the private import: the provider's rejection is
\* raised as the error the other provider failures of this file raise
aws_rsa_key_pair_new_from_private_key_pkcs1_impl_sys_call(key, fail, pub_derived) ==
    LET r == ImportImpl("import_private", "private", key, fail, pub_derived)
    IN  [r EXCEPT !.res.raised = IF @ = "AWS_ERROR_INVALID_ARGUMENT"
                                 THEN "AWS_ERROR_SYS_CALL_FAILURE" ELSE @]

aws_rsa_key_pair_new_from_private_key_pkcs1_impl(key, fail, pub_derived) ==
    ImportImpl("import_private", "private", key, fail, pub_derived)

aws_rsa_key_pair_new_from_public_key_pkcs1_impl(key, fail) ==
    ImportImpl("import_public", "public", key, fail, FALSE)

\* rsa.c forwards to the backend's constructors through two function pointers
aws_rsa_key_pair_new_from_private_key_pkcs1(key, fail, pub_derived) ==
    aws_rsa_key_pair_new_from_private_key_pkcs1_impl(key, fail, pub_derived)

aws_rsa_key_pair_new_from_public_key_pkcs1(key, fail) ==
    aws_rsa_key_pair_new_from_public_key_pkcs1_impl(key, fail)

----------------------------------------------------------------------------
(* Algorithm policy *)

\* [ret, raised]: AWS_OP_SUCCESS, or a failure with the error it raises
s_map_rsa_encryption_algo_to_sec(algorithm) ==
    IF algorithm \in EncryptionAlgorithms
    THEN [ret |-> "OK", raised |-> "none"]
    ELSE [ret |-> "ERR", raised |-> "AWS_ERROR_CAL_UNSUPPORTED_ALGORITHM"]

\* for PSS on a system without it the error code is returned, not raised
s_map_rsa_signing_algo_to_sec(algorithm, available) ==
    CASE algorithm = "AWS_CAL_RSA_SIGNATURE_PKCS1_5_SHA256"
            -> [ret |-> "OK", raised |-> "none"]
      [] algorithm = "AWS_CAL_RSA_SIGNATURE_PSS_SHA256"
            -> IF available THEN [ret |-> "OK", raised |-> "none"]
               ELSE [ret |-> "ERR", raised |-> "none"]
      [] OTHER -> [ret |-> "ERR", raised |-> "AWS_ERROR_CAL_UNSUPPORTED_ALGORITHM"]

\* `garbage` is what the caller reads as the return value when control
\* falls off the end of the function (no case matches and the assertion of a
\* string literal never fires)
aws_rsa_key_pair_max_encrypt_plaintext_size(k, algorithm, garbage) ==
    LET key_size_in_bytes == k.key_size_in_bits \div 8
    IN  CASE algorithm = "AWS_CAL_RSA_ENCRYPTION_PKCS1_5"
                -> key_size_in_bytes - 11
          [] algorithm = "AWS_CAL_RSA_ENCRYPTION_OAEP_SHA256"
                -> key_size_in_bytes - 2 * (256 \div 8) - 2
          [] algorithm = "AWS_CAL_RSA_ENCRYPTION_OAEP_SHA512"
                -> key_size_in_bytes - 2 * (512 \div 8) - 2
          [] OTHER -> garbage

aws_rsa_key_pair_block_length(k) == k.key_size_in_bits \div 8

aws_rsa_key_pair_signature_length(k) == k.key_size_in_bits \div 8

----------------------------------------------------------------------------
(* The backend's operations (the vtable).                                  *)
(* env is what the provider and the caller's buffer do in this call:       *)
(*   supported  SecKeyIsAlgorithmSupported's answer                        *)
(*   prim_ok    the primitive returns without an error object              *)
(*   room       the output buffer can take the result                      *)
(*   verified   SecKeyVerifySignature's answer                             *)
(*   plain_len  the length of the data SecKeyCreateDecryptedData returns   *)

s_rsa_encrypt(k, algorithm, len, env) ==
    LET map == s_map_rsa_encryption_algo_to_sec(algorithm)
        query == << Call("SecKeyIsAlgorithmSupported", k.pub_key_ref.class) >>
        head == query \o << Ev("create", "plaintext_ref"),
                            Call("SecKeyCreateEncryptedData", k.pub_key_ref.class) >>
    IN  CASE k.pub_key_ref = NullRef
                -> Result("s_rsa_encrypt", "ERR",
                          "AWS_ERROR_CAL_MISSING_REQUIRED_KEY_COMPONENT", << >>)
          [] k.pub_key_ref # NullRef /\ map.ret = "ERR"
                -> Result("s_rsa_encrypt", "ERR", map.raised, << >>)
          [] k.pub_key_ref # NullRef /\ map.ret = "OK" /\ ~env.supported
                -> Result("s_rsa_encrypt", "ERR",
                          "AWS_ERROR_CAL_UNSUPPORTED_ALGORITHM", query)
          [] OTHER
                -> IF ~env.prim_ok
                   THEN Result("s_rsa_encrypt", "ERR", "AWS_ERROR_SYS_CALL_FAILURE",
                               head \o << Ev("create", "error"), Ev("release", "error"),
                                          Ev("release", "plaintext_ref") >>)
                   ELSE IF ~env.room
                   THEN Result("s_rsa_encrypt", "ERR", "AWS_ERROR_SHORT_BUFFER",
                               head \o << Ev("create", "ciphertext_ref"),
                                          Ev("release", "plaintext_ref"),
                                          Ev("release", "ciphertext_ref") >>)
                   ELSE [Result("s_rsa_encrypt", "OK", "none",
                                head \o << Ev("create", "ciphertext_ref") >>)
                            EXCEPT !.out_len = SecKeyGetBlockSize(k.pub_key_ref)]

\* the support query is made on the public handle, the primitive on the
\* private one
s_rsa_decrypt(k, algorithm, len, env) ==
    LET map == s_map_rsa_encryption_algo_to_sec(algorithm)
        query == << Call("SecKeyIsAlgorithmSupported", k.pub_key_ref.class) >>
        head == query \o << Ev("create", "ciphertext_ref"),
                            Call("SecKeyCreateDecryptedData", k.priv_key_ref.class) >>
        null_passed == k.pub_key_ref = NullRef
    IN  CASE k.priv_key_ref = NullRef
                -> Result("s_rsa_decrypt", "ERR",
                          "AWS_ERROR_CAL_MISSING_REQUIRED_KEY_COMPONENT", << >>)
          [] k.priv_key_ref # NullRef /\ map.ret = "ERR"
                -> Result("s_rsa_decrypt", "ERR", map.raised, << >>)
          [] k.priv_key_ref # NullRef /\ map.ret = "OK" /\ ~env.supported
                -> [Result("s_rsa_decrypt", "ERR",
                           "AWS_ERROR_CAL_UNSUPPORTED_ALGORITHM", query)
                       EXCEPT !.ub = null_passed]
          [] OTHER
                -> IF ~env.prim_ok
                   THEN [Result("s_rsa_decrypt", "ERR", "AWS_ERROR_SYS_CALL_FAILURE",
                                head \o << Ev("create", "error"), Ev("release", "error"),
                                           Ev("release", "ciphertext_ref") >>)
                            EXCEPT !.ub = null_passed]
                   ELSE IF ~env.room
                   THEN [Result("s_rsa_decrypt", "ERR", "AWS_ERROR_SHORT_BUFFER",
                                head \o << Ev("create", "plaintext_ref"),
                                           Ev("release", "plaintext_ref"),
                                           Ev("release", "ciphertext_ref") >>)
                            EXCEPT !.ub = null_passed]
                   ELSE [Result("s_rsa_decrypt", "OK", "none",
                                head \o << Ev("create", "plaintext_ref") >>)
                            EXCEPT !.out_len = env.plain_len, !.ub = null_passed]

s_rsa_sign(k, algorithm, len, env, available) ==
    LET map == s_map_rsa_signing_algo_to_sec(algorithm, available)
        query == << Call("SecKeyIsAlgorithmSupported", k.priv_key_ref.class) >>
        head == query \o << Ev("create", "digest_ref"),
                            Call("SecKeyCreateSignature", k.priv_key_ref.class) >>
    IN  CASE k.priv_key_ref = NullRef
                -> Result("s_rsa_sign", "ERR",
                          "AWS_ERROR_CAL_MISSING_REQUIRED_KEY_COMPONENT", << >>)
          [] k.priv_key_ref # NullRef /\ map.ret = "ERR"
                -> Result("s_rsa_sign", "ERR", map.raised, << >>)
          [] k.priv_key_ref # NullRef /\ map.ret = "OK" /\ ~env.supported
                -> Result("s_rsa_sign", "ERR",
                          "AWS_ERROR_CAL_UNSUPPORTED_ALGORITHM", query)
          [] OTHER
                -> IF ~env.prim_ok
                   THEN Result("s_rsa_sign", "ERR", "AWS_ERROR_SYS_CALL_FAILURE",
                               head \o << Ev("create", "error"), Ev("release", "error"),
                                          Ev("release", "digest_ref") >>)
                   ELSE IF ~env.room
                   THEN Result("s_rsa_sign", "ERR", "AWS_ERROR_SHORT_BUFFER",
                               head \o << Ev("create", "signature_ref"),
                                          Ev("release", "digest_ref"),
                                          Ev("release", "signature_ref") >>)
                   ELSE [Result("s_rsa_sign", "OK", "none",
                                head \o << Ev("create", "signature_ref"),
                                           Ev("release", "digest_ref"),
                                           Ev("release", "signature_ref") >>)
                            EXCEPT !.out_len = SecKeyGetBlockSize(k.priv_key_ref)]

s_rsa_verify(k, algorithm, len, env, available) ==
    LET map == s_map_rsa_signing_algo_to_sec(algorithm, available)
        query == << Call("SecKeyIsAlgorithmSupported", k.pub_key_ref.class) >>
        body == query \o << Ev("create", "digest_ref"), Ev("create", "signature_ref"),
                            Call("SecKeyVerifySignature", k.pub_key_ref.class),
                            Ev("release", "digest_ref"),
                            Ev("release", "signature_ref") >>
    IN  CASE k.pub_key_ref = NullRef
                -> Result("s_rsa_verify", "ERR",
                          "AWS_ERROR_CAL_MISSING_REQUIRED_KEY_COMPONENT", << >>)
          [] k.pub_key_ref # NullRef /\ map.ret = "ERR"
                -> Result("s_rsa_verify", "ERR", map.raised, << >>)
          [] k.pub_key_ref # NullRef /\ map.ret = "OK" /\ ~env.supported
                -> Result("s_rsa_verify", "ERR",
                          "AWS_ERROR_CAL_UNSUPPORTED_ALGORITHM", query)
          [] OTHER
                -> IF ~env.prim_ok
                   THEN Result("s_rsa_verify", "ERR", "AWS_ERROR_SYS_CALL_FAILURE",
                               body \o << Ev("create", "error"), Ev("release", "error") >>)
                   ELSE IF env.verified
                   THEN Result("s_rsa_verify", "OK", "none", body)
                   ELSE Result("s_rsa_verify", "ERR",
                               "AWS_ERROR_CAL_SIGNATURE_VALIDATION_FAILED", body)

----------------------------------------------------------------------------
(* The dispatch layer (rsa.c) *)

\* a backend result seen through the dispatch layer
Dispatched(op, r) == [r EXCEPT !.op = op, !.dispatched = TRUE]

aws_rsa_key_pair_encrypt(k, algorithm, len, env, garbage) ==
    IF SizeLess(aws_rsa_key_pair_max_encrypt_plaintext_size(k, algorithm, garbage), len)
    THEN Result("encrypt", "ERR", "AWS_ERROR_CAL_BUFFER_TOO_LARGE_FOR_ALGORITHM", << >>)
    ELSE IF k.good
    THEN Dispatched("encrypt", s_rsa_encrypt(k, algorithm, len, env))
    ELSE Result("encrypt", "ERR", "AWS_ERROR_INVALID_STATE", << >>)

\* a faulty variant of decrypt: only a ciphertext longer than the block is
\* rejected
aws_rsa_key_pair_decrypt_longer_only(k, algorithm, len, env) ==
    IF len > k.key_size_in_bits \div 8
    THEN Result("decrypt", "ERR", "AWS_ERROR_INVALID_ARGUMENT", << >>)
    ELSE IF k.good
    THEN Dispatched("decrypt", s_rsa_decrypt(k, algorithm, len, env))
    ELSE Result("decrypt", "ERR", "AWS_ERROR_INVALID_STATE", << >>)

aws_rsa_key_pair_decrypt(k, algorithm, len, env) ==
    IF len # k.key_size_in_bits \div 8
    THEN Result("decrypt", "ERR", "AWS_ERROR_INVALID_ARGUMENT", << >>)
    ELSE IF k.good
    THEN Dispatched("decrypt", s_rsa_decrypt(k, algorithm, len, env))
    ELSE Result("decrypt", "ERR", "AWS_ERROR_INVALID_STATE", << >>)

\* a faulty variant of sign: the dispatch is not gated on the good flag
aws_rsa_key_pair_sign_message_ungated(k, algorithm, len, env, available) ==
    Dispatched("sign", s_rsa_sign(k, algorithm, len, env, available))

aws_rsa_key_pair_sign_message(k, algorithm, len, env, available) ==
    IF k.good
    THEN Dispatched("sign", s_rsa_sign(k, algorithm, len, env, available))
    ELSE Result("sign", "ERR", "AWS_ERROR_INVALID_STATE", << >>)

aws_rsa_key_pair_verify_signature(k, algorithm, len, env, available) ==
    IF k.good
    THEN Dispatched("verify", s_rsa_verify(k, algorithm, len, env, available))
    ELSE Result("verify", "ERR", "AWS_ERROR_INVALID_STATE", << >>)

aws_rsa_key_pair_get_public_key(k) ==
    IF k.good
    THEN [Result("get_public_key", "OK", "none", << >>) EXCEPT !.view = k.pub]
    ELSE Result("get_public_key", "ERR", "AWS_ERROR_INVALID_STATE", << >>)

aws_rsa_key_pair_get_private_key(k) ==
    IF k.good
    THEN [Result("get_private_key", "OK", "none", << >>) EXCEPT !.view = k.priv]
    ELSE Result("get_private_key", "ERR", "AWS_ERROR_INVALID_STATE", << >>)

\* aws_ref_count_acquire: one more reference, the same object
aws_rsa_key_pair_acquire(k) ==
    [kp |-> [k EXCEPT !.ref_count = @ + 1],
     res |-> Result("acquire", "OBJ", "none", << >>)]

\* a faulty variant of release: the object is torn down at every release of
\* a key pair, whatever its count
aws_rsa_key_pair_release_eager(k) ==
    IF k.obj = "NULL"
    THEN [kp |-> k, res |-> Result("release", "NULL", "none", << >>)]
    ELSE [kp |-> FreedKeyPair,
          res |-> Result("release", "NULL", "none", aws_rsa_key_pair_destroy(k))]

\* aws_ref_count_release: one reference less, and at zero the on-zero
\* callback aws_rsa_key_pair_destroy; nothing for a NULL key pair
aws_rsa_key_pair_release(k) ==
    IF k.obj = "NULL"
    THEN [kp |-> k, res |-> Result("release", "NULL", "none", << >>)]
    ELSE IF k.ref_count = 1
    THEN [kp |-> FreedKeyPair,
          res |-> Result("release", "NULL", "none", aws_rsa_key_pair_destroy(k))]
    ELSE [kp |-> [k EXCEPT !.ref_count = @ - 1],
          res |-> Result("release", "NULL", "none", << >>)]

----------------------------------------------------------------------------
(* Inputs *)

KeySizes ==
    {AWS_CAL_RSA_MIN_SUPPORTED_KEY_SIZE + 8 * i : i \in 0..MaxSizeSteps}
    \cup {AWS_CAL_RSA_MAX_SUPPORTED_KEY_SIZE}

\* the sizes asked of generation: the supported ones, and some that are not
GenSizes ==
    KeySizes \cup {AWS_CAL_RSA_MIN_SUPPORTED_KEY_SIZE - 8,
                   AWS_CAL_RSA_MIN_SUPPORTED_KEY_SIZE + 4,
                   AWS_CAL_RSA_MAX_SUPPORTED_KEY_SIZE + 8}

SmallestKey == AWS_CAL_RSA_MIN_SUPPORTED_KEY_SIZE

Version1Blob == PrivateKeyBlob(SmallestKey, 1)
TruncatedBlob == Truncated(PrivateKeyBlob(SmallestKey, 0))

PrivateBlobs ==
    {PrivateKeyBlob(b, 0) : b \in KeySizes}
    \cup {Version1Blob, TruncatedBlob, PublicKeyBlob(SmallestKey)}

PublicBlobs ==
    {PublicKeyBlob(b) : b \in KeySizes}
    \cup {Truncated(PublicKeyBlob(SmallestKey)), PrivateKeyBlob(SmallestKey, 0)}

Slack == (0 - MaxSlack)..MaxSlack

\* nodes a token stream may hold in place of the expected one: the other
\* tag, INTEGERs of several lengths and first bytes, a node of another type
OddNodes ==
    {SequenceNode, IntegerNode(0, 0), IntegerNode(1, 0), IntegerNode(1, 1),
     IntegerNode(2, 0), Node("OCTET_STRING", 1, 0)}

Replaced(blob, i, node) == [blob EXCEPT ![i] = node]

\* the sequences of at most n odd nodes
NodeSeqs(n) == UNION {[1..m -> OddNodes] : m \in 0..n}

\* the token streams offered to the mappers: a well-formed private or public
\* key with one node replaced or not, cut after any node or followed by
\* further nodes
TokenStreams ==
    LET keys == {PrivateKeyBlob(SmallestKey, 0), PublicKeyBlob(SmallestKey)}
        varied ==
            keys \cup UNION {{Replaced(b, i, node) : i \in 1..Len(b), node \in OddNodes} :
                             b \in keys}
    IN  UNION {{SubSeq(b, 1, k) : k \in 0..Len(b)} : b \in varied}
        \cup {b \o tail : b \in varied, tail \in NodeSeqs(MaxTrailing)}

\* what a caller may read after control fell off the end of
\* aws_rsa_key_pair_max_encrypt_plaintext_size: 0, or SIZE_MAX
GarbageSizes == {0, 0 - 1}

\* the value is read only when no case of the switch returned
GarbageFor(a) == IF a \in EncryptionAlgorithms THEN {0} ELSE GarbageSizes

\* the lengths of a buffer that can be in memory (not one at the top of
\* size_t's range) among those within MaxSlack of a threshold
Near(threshold) == {l \in {threshold + d : d \in Slack} : l >= 0}

\* ciphertext lengths: around 0 and the block length
CiphertextLens(k) == Near(0) \cup Near(aws_rsa_key_pair_block_length(k))

\* plaintext lengths: also around the maximal plaintext size of the algorithm
PlaintextLens(k, a) ==
    CiphertextLens(k)
    \cup IF a \in EncryptionAlgorithms
         THEN Near(aws_rsa_key_pair_max_encrypt_plaintext_size(k, a, 0))
         ELSE {}

DigestLens == {32}

Env(supported, prim_ok, room, verified) ==
    [supported |-> supported, prim_ok |-> prim_ok, room |-> room,
     verified |-> verified, plain_len |-> 1]

\* the ways a call into the provider can go: the algorithm is not supported
\* for the key, the primitive reports an error, the output buffer is too
\* short, the signature does not verify, all goes well
Envs ==
    {Env(FALSE, TRUE, TRUE, TRUE), Env(TRUE, FALSE, TRUE, TRUE),
     Env(TRUE, TRUE, FALSE, TRUE), Env(TRUE, TRUE, TRUE, FALSE),
     Env(TRUE, TRUE, TRUE, TRUE)}

----------------------------------------------------------------------------
(* Actions *)

Live == kp.obj = "live"

\* the call's report and the thread's last error
Report(res) ==
    /\ last' = [res EXCEPT !.before = kp]
    /\ UNCHANGED <<pss_available, decoder, out>>

Threads == 1..MaxThreads
\* the thread that calls the constructors and, in the sequential program,
\* everything else
MainThread == 1
NoHolders == [t \in Threads |-> 0]

RECURSIVE SumUpTo(_, _)
SumUpTo(f, n) == IF n = 0 THEN 0 ELSE f[n] + SumUpTo(f, n - 1)
\* the references outstanding
Outstanding == SumUpTo(holders, MaxThreads)

\* a constructor's caller holds the one reference of the object it gets
Construct(r) ==
    /\ kp' = r.kp
    /\ Report([r.res EXCEPT !.thread = MainThread])
    /\ holders' = IF r.kp.obj = "live"
                  THEN [NoHolders EXCEPT ![MainThread] = 1] ELSE NoHolders
    /\ teardowns' = 0

GenerateRandom ==
    /\ ~Live
    /\ \E size \in GenSizes, fail \in GenFailPoints :
          Construct(aws_rsa_key_pair_new_generate_random(size, fail))

ImportPrivate ==
    /\ ~Live
    /\ \E key \in PrivateBlobs, fail \in ImportFailPoints, pub_derived \in BOOLEAN :
          Construct(aws_rsa_key_pair_new_from_private_key_pkcs1(key, fail, pub_derived))

ImportPublic ==
    /\ ~Live
    /\ \E key \in PublicBlobs, fail \in ImportFailPoints :
          Construct(aws_rsa_key_pair_new_from_public_key_pkcs1(key, fail))

\* thread t, which holds a reference, takes one more and hands it to u
Acquire(t, u) ==
    /\ Live
    /\ holders[t] > 0
    /\ kp.ref_count < MaxRefs
    /\ LET r == aws_rsa_key_pair_acquire(kp)
       IN  /\ kp' = r.kp
           /\ Report([r.res EXCEPT !.thread = t])
    /\ holders' = [holders EXCEPT ![u] = @ + 1]
    /\ UNCHANGED teardowns

\* thread t gives up a reference it holds
Release(t) ==
    /\ Live
    /\ holders[t] > 0
    /\ LET r == aws_rsa_key_pair_release(kp)
       IN  /\ kp' = r.kp
           /\ Report([r.res EXCEPT !.thread = t])
           /\ teardowns' = teardowns + Count(r.res.trace, "dispatch", "destroy")
    /\ holders' = [holders EXCEPT ![t] = @ - 1]

\* thread t releases a NULL key pair; the object, if there is one, is not
\* the argument of the call
ReleaseNull(t) ==
    /\ LET r == aws_rsa_key_pair_release(NoKeyPair)
       IN  last' = [r.res EXCEPT !.before = NoKeyPair, !.thread = t]
    /\ UNCHANGED <<kp, pss_available, holders, teardowns, decoder, out>>

WithInput(res, algorithm, len) == [res EXCEPT !.alg = algorithm, !.len = len]

Encrypt ==
    /\ Live
    /\ \E a \in AnyEncryptionAlgorithm :
       \E len \in PlaintextLens(kp, a), env \in Envs, garbage \in GarbageFor(a) :
          Report([WithInput(aws_rsa_key_pair_encrypt(kp, a, len, env, garbage), a, len)
                     EXCEPT !.ub = a \notin EncryptionAlgorithms])
    /\ UNCHANGED <<kp, holders, teardowns>>

Decrypt ==
    /\ Live
    /\ \E a \in AnyEncryptionAlgorithm, len \in CiphertextLens(kp), env \in Envs :
          Report(WithInput(aws_rsa_key_pair_decrypt(kp, a, len, env), a, len))
    /\ UNCHANGED <<kp, holders, teardowns>>

SignMessage ==
    /\ Live
    /\ \E a \in AnySigningAlgorithm, len \in DigestLens, env \in Envs :
          Report(WithInput(
              aws_rsa_key_pair_sign_message(kp, a, len, env, pss_available), a, len))
    /\ UNCHANGED <<kp, holders, teardowns>>

VerifySignature ==
    /\ Live
    /\ \E a \in AnySigningAlgorithm, len \in DigestLens, env \in Envs :
          Report(WithInput(
              aws_rsa_key_pair_verify_signature(kp, a, len, env, pss_available), a, len))
    /\ UNCHANGED <<kp, holders, teardowns>>

GetPublicKey ==
    /\ Live
    /\ Report(aws_rsa_key_pair_get_public_key(kp))
    /\ UNCHANGED <<kp, holders, teardowns>>

GetPrivateKey ==
    /\ Live
    /\ Report(aws_rsa_key_pair_get_private_key(kp))
    /\ UNCHANGED <<kp, holders, teardowns>>

\* the vtable's entries, called on the object directly
VtableEncrypt ==
    /\ Live /\ kp.vtable
    /\ \E a \in AnyEncryptionAlgorithm, len \in {1}, env \in Envs :
          Report(WithInput(s_rsa_encrypt(kp, a, len, env), a, len))
    /\ UNCHANGED <<kp, holders, teardowns>>

VtableDecrypt ==
    /\ Live /\ kp.vtable
    /\ \E a \in AnyEncryptionAlgorithm, len \in {aws_rsa_key_pair_block_length(kp)},
          env \in Envs :
          Report(WithInput(s_rsa_decrypt(kp, a, len, env), a, len))
    /\ UNCHANGED <<kp, holders, teardowns>>

VtableSign ==
    /\ Live /\ kp.vtable
    /\ \E a \in AnySigningAlgorithm, len \in DigestLens, env \in Envs :
          Report(WithInput(s_rsa_sign(kp, a, len, env, pss_available), a, len))
    /\ UNCHANGED <<kp, holders, teardowns>>

VtableVerify ==
    /\ Live /\ kp.vtable
    /\ \E a \in AnySigningAlgorithm, len \in DigestLens, env \in Envs :
          Report(WithInput(s_rsa_verify(kp, a, len, env, pss_available), a, len))
    /\ UNCHANGED <<kp, holders, teardowns>>

\* a mapper is run on a decoder that has not been advanced
LoadReport(op, r) ==
    /\ decoder' = r.d
    /\ out' = r.out
    /\ last' = [Result(op, r.ret, r.raised, << >>) EXCEPT !.input = decoder.tokens]
    /\ UNCHANGED <<kp, pss_available, holders, teardowns>>

LoadPrivateKey ==
    /\ decoder.idx = 0
    /\ last.op = "init"
    /\ LoadReport("load_private", aws_der_decoder_load_private_rsa_pkcs1(decoder, out))

LoadPublicKey ==
    /\ decoder.idx = 0
    /\ last.op = "init"
    /\ LoadReport("load_public", aws_der_decoder_load_public_rsa_pkcs1(decoder, out))

Init ==
    /\ kp = NoKeyPair
    /\ last = Result("init", "-", "none", << >>)
    /\ pss_available \in BOOLEAN
    /\ holders = NoHolders
    /\ teardowns = 0
    /\ decoder = NoDecoder
    /\ out = EmptyKey

\* the sequential program: every call is made by the main thread
Next ==
    \/ GenerateRandom
    \/ ImportPrivate
    \/ ImportPublic
    \/ Acquire(MainThread, MainThread)
    \/ Release(MainThread)
    \/ ReleaseNull(MainThread)
    \/ Encrypt
    \/ Decrypt
    \/ SignMessage
    \/ VerifySignature
    \/ GetPublicKey
    \/ GetPrivateKey
    \/ VtableEncrypt
    \/ VtableDecrypt
    \/ VtableSign
    \/ VtableVerify

Spec == Init /\ [][Next]_vars

\* the object's lifetime with several threads holding references: every
\* aws_ref_count call is one atomic step
NextThreads ==
    \/ GenerateRandom
    \/ ImportPrivate
    \/ ImportPublic
    \/ \E t \in Threads, u \in Threads : Acquire(t, u)
    \/ \E t \in Threads : Release(t)
    \/ \E t \in Threads : ReleaseNull(t)

SpecThreads == Init /\ [][NextThreads]_vars

\* the mappers, each run on a decoder of a token stream
InitDer ==
    /\ kp = NoKeyPair
    /\ last = Result("init", "-", "none", << >>)
    /\ pss_available \in BOOLEAN
    /\ holders = NoHolders
    /\ teardowns = 0
    /\ decoder \in {NewDecoder(tokens) : tokens \in TokenStreams}
    /\ out = EmptyKey

NextDer ==
    \/ LoadPrivateKey
    \/ LoadPublicKey

SpecDer == InitDer /\ [][NextDer]_vars

----------------------------------------------------------------------------
(* Properties *)

DispatchOps == {"encrypt", "decrypt", "sign", "verify"}
GetterOps == {"get_public_key", "get_private_key"}
BackendOps == {"s_rsa_encrypt", "s_rsa_decrypt", "s_rsa_sign", "s_rsa_verify"}
ConstructorOps == {"generate", "import_private", "import_public"}

\* every object of `objs` that the call created it released, once
ReleasedOnce(trace, objs) ==
    \A o \in objs :
        /\ Count(trace, "create", o) <= 1
        /\ Count(trace, "release", o) = Count(trace, "create", o)

\* ev1 on o1 happens, once, and before ev2 on o2
Before(trace, ev1, o1, ev2, o2) ==
    /\ Count(trace, ev1, o1) = 1
    /\ Count(trace, ev2, o2) = 1
    /\ FirstIndex(trace, ev1, o1) < FirstIndex(trace, ev2, o2)

\* the last call was a generation of a supported size in which no step failed
GeneratedNow == last.op = "generate" /\ last.fail = "none"

\* C1: for every supported size s and a provider whose calls all succeed,
\* generate(s) returns a valid key pair (the good flag set) of block length
\* s/8 whose public and private bytes can be exported, and importing the
\* exported bytes gives a valid key pair of the same block length.
C1_GenerateValidRoundTrip ==
    GeneratedNow =>
        LET pub == aws_rsa_key_pair_get_public_key(kp)
            priv == aws_rsa_key_pair_get_private_key(kp)
            from_pub == aws_rsa_key_pair_new_from_public_key_pkcs1(pub.view, "none")
            from_priv ==
                aws_rsa_key_pair_new_from_private_key_pkcs1(priv.view, "none", TRUE)
        IN  /\ kp.obj = "live"
            /\ kp.good
            /\ aws_rsa_key_pair_block_length(kp) = last.len \div 8
            /\ pub.ret = "OK" /\ priv.ret = "OK"
            /\ from_pub.kp.obj = "live" /\ from_pub.kp.good
            /\ aws_rsa_key_pair_block_length(from_pub.kp) = last.len \div 8
            /\ from_priv.kp.obj = "live" /\ from_priv.kp.good
            /\ aws_rsa_key_pair_block_length(from_priv.kp) = last.len \div 8

\* C2: for every supported key size and each of the three encryption
\* algorithms, encrypt of a plaintext one byte longer than the maximal
\* plaintext size (computed in size_t) fails with BufferTooLargeForAlgorithm
\* and the backend is not called.
C2_EncryptOverMaxRejected ==
    ( /\ last.op = "encrypt"
      /\ last.alg \in EncryptionAlgorithms
      /\ last.len = aws_rsa_key_pair_max_encrypt_plaintext_size(last.before, last.alg, 0) + 1 )
    => /\ last.ret = "ERR"
       /\ last.raised = "AWS_ERROR_CAL_BUFFER_TOO_LARGE_FOR_ALGORITHM"
       /\ ~last.dispatched
       /\ Calls(last.trace) = {}

\* C3: decrypt of a ciphertext whose length is not keySizeBits/8 fails with
\* InvalidArgument, neither the backend's decrypt nor the provider is called,
\* and the output buffer and the key pair are as they were.
C3_DecryptWrongLengthRejected ==
    (last.op = "decrypt" /\ last.len # last.before.key_size_in_bits \div 8)
    => /\ last.ret = "ERR"
       /\ last.raised = "AWS_ERROR_INVALID_ARGUMENT"
       /\ ~last.dispatched
       /\ last.trace = << >>
       /\ last.out_len = 0
       /\ kp = last.before

\* a decrypt of a ciphertext one byte shorter than the block was rejected on
\* a key pair that holds a private handle
C3_Witness ==
    /\ last.op = "decrypt"
    /\ last.len = aws_rsa_key_pair_block_length(last.before) - 1
    /\ last.before.priv_key_ref # NullRef
    /\ last.raised = "AWS_ERROR_INVALID_ARGUMENT"

\* the last call was the release of the last reference
TornDown ==
    last.op = "release" /\ last.before.obj = "live" /\ last.before.ref_count = 1

\* C4 as stated: at the release of the last reference the backend's destroy
\* runs first and the two key byte buffers are zero-filled and freed after it.
C4_BackendDestroyBeforeBuffers ==
    TornDown =>
        /\ Before(last.trace, "dispatch", "destroy", "clean_up_secure", "priv")
        /\ Before(last.trace, "dispatch", "destroy", "clean_up_secure", "pub")

\* C4, amended: at the release of the last reference (and at no other
\* release) both key byte buffers are zero-filled and freed, the private one
\* first, and only then the backend's destroy runs, which releases the key
\* handles the object holds and, last of all, the object's memory.
C4_BuffersCleanedBeforeBackendDestroy ==
    /\ TornDown =>
        /\ Before(last.trace, "clean_up_secure", "priv", "clean_up_secure", "pub")
        /\ Before(last.trace, "clean_up_secure", "pub", "dispatch", "destroy")
        /\ Before(last.trace, "dispatch", "destroy", "mem_release", "key_pair")
        /\ last.trace[Len(last.trace)] = Ev("mem_release", "key_pair")
        /\ Count(last.trace, "release", "priv_key_ref")
              = (IF last.before.priv_key_ref # NullRef THEN 1 ELSE 0)
        /\ Count(last.trace, "release", "pub_key_ref")
              = (IF last.before.pub_key_ref # NullRef THEN 1 ELSE 0)
        /\ \A o \in {"priv_key_ref", "pub_key_ref"} :
              Has(last.trace, "release", o) =>
                  FirstIndex(last.trace, "dispatch", "destroy")
                      < FirstIndex(last.trace, "release", o)
        /\ kp.obj = "freed"
    /\ (last.op = "release" /\ ~TornDown) => last.trace = << >>

\* the last reference of a key pair holding private and public bytes and
\* both handles was released
C4_Witness ==
    /\ TornDown
    /\ last.before.priv # EmptyBuf /\ last.before.pub # EmptyBuf
    /\ last.before.priv_key_ref # NullRef /\ last.before.pub_key_ref # NullRef
    /\ kp.obj = "freed"

C6_PublicOnlyMissingComponent ==
    ( /\ last.before.origin = "import_public"
      /\ \/ last.op = "decrypt"
            /\ last.len = aws_rsa_key_pair_block_length(last.before)
         \/ last.op = "sign" )
    => /\ last.ret = "ERR"
       /\ last.raised = "AWS_ERROR_CAL_MISSING_REQUIRED_KEY_COMPONENT"
       /\ Calls(last.trace) = {}

\* the last call was an import of `blob` as a private key in which the
\* provider was asked to make the key
ImportedPrivate(blob) ==
    /\ last.op = "import_private"
    /\ last.input = blob
    /\ Has(last.trace, "call", "SecKeyCreateWithData")

\* C7 as stated: importPrivate of a blob whose version is 1 fails with
\* UnsupportedKeyFormat and of a truncated blob with MalformedEncoding, no key
\* pair being returned.
C7_ImportPrivateSpecificErrors ==
    /\ ImportedPrivate(Version1Blob) =>
          /\ last.ret = "NULL"
          /\ last.raised = "AWS_ERROR_CAL_UNSUPPORTED_KEY_FORMAT"
    /\ ImportedPrivate(TruncatedBlob) =>
          /\ last.ret = "NULL"
          /\ last.raised = "AWS_ERROR_CAL_MALFORMED_ASN1_ENCOUNTERED"

\* C7, amended: importPrivate of a blob whose version is 1, or of a truncated
\* blob, which the provider rejects, fails with InvalidArgument (the backend
\* hands the bytes to the provider and does not parse them), no key pair
\* being returned; the bytes copied into the object are cleaned and every
\* provider object of the call is released.
C7_ImportPrivateRejectedInvalidArgument ==
    (ImportedPrivate(Version1Blob) \/ ImportedPrivate(TruncatedBlob))
    => /\ last.ret = "NULL"
       /\ kp.obj = "NULL"
       /\ last.raised = "AWS_ERROR_INVALID_ARGUMENT"
       /\ Before(last.trace, "init", "priv", "clean_up_secure", "priv")
       /\ ReleasedOnce(last.trace,
                       {"key_data", "key_attributes", "error", "cf_allocator"})
       /\ last.trace[Len(last.trace)] = Ev("mem_release", "key_pair")

\* both malformed blobs can be offered: here the truncated one was
C7_Witness ==
    /\ ImportedPrivate(TruncatedBlob)
    /\ last.ret = "NULL"
    /\ last.raised = "AWS_ERROR_INVALID_ARGUMENT"

\* the size precondition of the call passed
SizeOk ==
    CASE last.op = "encrypt"
            -> ~SizeLess(aws_rsa_key_pair_max_encrypt_plaintext_size(
                             last.before, last.alg, 0), last.len)
      [] last.op = "decrypt"
            -> last.len = aws_rsa_key_pair_block_length(last.before)
      [] OTHER -> TRUE

\* C8: on a key pair whose good flag is not set, encrypt, decrypt, sign,
\* verify, getPublicKey and getPrivateKey fail without dispatching to the
\* vtable, calling the provider, writing output or returning key bytes, with
\* InvalidState when the size precondition passes; and a constructor that
\* fails returns no object.
C8_InvalidKeyPairNeverDispatches ==
    /\ (last.op \in DispatchOps \cup GetterOps /\ ~last.before.good) =>
          /\ last.ret = "ERR"
          /\ ~last.dispatched
          /\ last.trace = << >>
          /\ last.out_len = 0
          /\ last.view = EmptyBuf
          /\ kp = last.before
          /\ (~last.ub /\ SizeOk) => last.raised = "AWS_ERROR_INVALID_STATE"
    /\ (last.op \in ConstructorOps /\ last.fail # "none") =>
          /\ last.ret = "NULL"
          /\ kp.obj = "NULL"

\* sign was called on a key pair with a private handle whose good flag is not
\* set, and failed with InvalidState
C8_Witness ==
    /\ last.op = "sign"
    /\ ~last.before.good
    /\ last.before.priv_key_ref # NullRef
    /\ last.raised = "AWS_ERROR_INVALID_STATE"

Temporaries == {"plaintext_ref", "ciphertext_ref", "digest_ref", "signature_ref", "error"}

\* C9: in each backend operation every provider temporary created during the
\* call is released exactly once before the call returns, on the success path
\* and on every error path.
C9_BackendTemporariesReleasedOnce ==
    last.op \in BackendOps => ReleasedOnce(last.trace, Temporaries)

GenObjects ==
    {"cf_allocator", "key_attributes", "cf_key_size", "priv_export_data",
     "pub_export_data", "priv_key_ref", "pub_key_ref", "error"}

\* C10: when a step of random generation fails, every provider object
\* created so far has been released exactly once, key bytes already stored
\* have been zero-filled and freed, and no object is returned.
C10_GenerateFailureReleasesEverything ==
    (last.op = "generate" /\ last.fail \in GenFailPoints \ {"none"})
    => /\ last.ret = "NULL"
       /\ kp.obj = "NULL"
       /\ ReleasedOnce(last.trace, GenObjects)
       /\ \A b \in {"priv", "pub"} :
             Has(last.trace, "init", b) => Count(last.trace, "clean_up_secure", b) = 1

\* the key pair the last call acted on came from a private import in which
\* the provider made the private handle and gave no public one
PrivateOnly(k) ==
    /\ k.origin = "import_private"
    /\ k.priv_key_ref # NullRef
    /\ k.pub_key_ref = NullRef

\* the handles the call passed to the provider
HandlesPassed(trace) ==
    {trace[i].arg : i \in {j \in 1..Len(trace) : trace[j].ev = "call"}}

\* C11: when the provider makes the private handle of an import and gives no
\* public one, the import still returns a key pair; on it the vtable's
\* decrypt and sign pass only the private handle to the provider, never the
\* absent public one, and the vtable's encrypt and verify fail with
\* MissingKeyComponent.
C11_PrivateOnlyUsesPrivateHandle ==
    /\ (last.op = "import_private" /\ last.fail = "none") =>
          /\ last.ret = "OBJ"
          /\ kp.obj = "live"
    /\ ( /\ PrivateOnly(last.before)
         /\ last.op \in {"s_rsa_decrypt", "s_rsa_sign"} )
       => HandlesPassed(last.trace) \subseteq {"private"}
    /\ ( /\ PrivateOnly(last.before)
         /\ last.op \in {"s_rsa_encrypt", "s_rsa_verify"} )
       => /\ last.ret = "ERR"
          /\ last.raised = "AWS_ERROR_CAL_MISSING_REQUIRED_KEY_COMPONENT"

\* the algorithm of the last call cannot be resolved on this system
Unresolved ==
    \/ /\ last.op \in {"encrypt", "decrypt", "s_rsa_encrypt", "s_rsa_decrypt"}
       /\ last.alg \notin EncryptionAlgorithms
    \/ /\ last.op \in {"sign", "verify", "s_rsa_sign", "s_rsa_verify"}
       /\ \/ last.alg \notin SigningAlgorithms
          \/ last.alg = "AWS_CAL_RSA_SIGNATURE_PSS_SHA256" /\ ~pss_available

\* the key pair holds the handle the operation needs
HandlePresent ==
    IF last.op \in {"encrypt", "verify", "s_rsa_encrypt", "s_rsa_verify"}
    THEN last.before.pub_key_ref # NullRef
    ELSE last.before.priv_key_ref # NullRef

\* C12: whenever the algorithm of sign, verify, encrypt or decrypt cannot be
\* resolved (a value outside the enumeration, or PSS-SHA256 on a system that
\* lacks it), the call fails, the error raised is UnsupportedAlgorithm and no
\* provider primitive is called.  Stated of the vtable entries on a key pair
\* that holds the handle the operation needs.
C12_UnresolvedAlgorithmRaisesUnsupported ==
    (last.op \in BackendOps /\ HandlePresent /\ Unresolved)
    => /\ last.ret = "ERR"
       /\ last.raised = "AWS_ERROR_CAL_UNSUPPORTED_ALGORITHM"
       /\ Calls(last.trace) = {}

\* C13: encrypt with an algorithm value outside the enumeration ends in the
\* fatal abort of maxPlaintextSize: no size is returned, so the call does not
\* come back with an error of the size comparison or of the validity gate,
\* and the backend is not reached.
C13_UnknownAlgorithmAborts ==
    (last.op = "encrypt" /\ last.alg \notin EncryptionAlgorithms)
    => /\ last.ret = "ABORT"
       /\ ~last.dispatched

\* C14: however the acquire and release calls of several threads interleave,
\* each thread releasing only references it holds, the reference count of a
\* live object is the number of references outstanding; acquire returns the
\* object it was given, with one reference more; aws_rsa_key_pair_destroy
\* runs in the release that leaves no reference outstanding, in no other,
\* and once in the object's life; and the release of a NULL key pair does
\* nothing.
C14_RefCountEqualsOutstanding ==
    /\ Live => /\ kp.ref_count = Outstanding
               /\ Outstanding >= 1
               /\ teardowns = 0
    /\ ~Live => Outstanding = 0
    /\ kp.obj = "freed" => teardowns = 1
    /\ kp.obj = "NULL" => teardowns = 0
    /\ last.op = "acquire" =>
          /\ last.ret = "OBJ"
          /\ kp = [last.before EXCEPT !.ref_count = @ + 1]
    /\ (last.op = "release" /\ last.before.obj = "live") =>
          /\ Count(last.trace, "dispatch", "destroy")
                = (IF Outstanding = 0 THEN 1 ELSE 0)
          /\ IF Outstanding = 0
             THEN kp.obj = "freed"
             ELSE kp = [last.before EXCEPT !.ref_count = @ - 1]
    /\ (last.op = "release" /\ last.before.obj = "NULL") =>
          /\ last.ret = "NULL"
          /\ last.trace = << >>

\* a thread other than the constructing one released the last reference and
\* the object was torn down
C14_Witness ==
    /\ last.op = "release"
    /\ last.thread # MainThread
    /\ last.before.obj = "live"
    /\ last.before.ref_count = 1
    /\ kp.obj = "freed"
    /\ teardowns = 1

\* the i-th node of the stream is there and has the tag a key has at i
Expected(tokens, i) ==
    /\ i <= Len(tokens)
    /\ tokens[i].tag = (IF i = 1 THEN "SEQUENCE" ELSE "INTEGER")

\* the first of the first n nodes that is absent or has the wrong tag, 0 if
\* there is none
FirstBad(tokens, n) ==
    IF \A i \in 1..n : Expected(tokens, i) THEN 0
    ELSE CHOOSE i \in 1..n :
            /\ ~Expected(tokens, i)
            /\ \A j \in 1..(i - 1) : Expected(tokens, j)

\* the integer view of the i-th node
ViewOf(tokens, i) == [node |-> i, len |-> tokens[i].len, byte0 |-> tokens[i].byte0]

\* when the mapper stopped at node `bad` (0: it did not stop) having looked
\* at `n` nodes otherwise: the nodes 1, 2, ... were examined in order, each
\* once and after one advance, up to the node that decided the call; a node
\* that is absent costs one more advance and is not examined
AdvancedOncePerNode(tokens, bad, n) ==
    LET stop == IF bad = 0 THEN n ELSE bad
        seen == IF stop <= Len(tokens) THEN stop ELSE stop - 1
    IN  /\ decoder.idx = stop
        /\ decoder.examined = [i \in 1..seen |-> i]
        /\ decoder.tokens = tokens

\* C15: of every token stream, the private mapper succeeds exactly when the
\* stream starts with a SEQUENCE and nine INTEGER nodes, the first INTEGER
\* (the version) of one byte that is 0; it fails with MalformedEncoding at
\* the first expected node that is absent or has the wrong tag, and with
\* UnsupportedKeyFormat when the version INTEGER is there and is not one byte
\* 0; it advances the decoder once per node it examines; and on success
\* modulus, publicExponent, privateExponent, prime1, prime2, exponent1,
\* exponent2 and coefficient view the nodes 3 to 10 in that order.  The
\* public mapper does the same for SEQUENCE, modulus, publicExponent.
C15_MapperFollowsStructure ==
    /\ last.op = "load_private" =>
          LET tokens == last.input
              bad == FirstBad(tokens, 10)
              version_bad ==
                  /\ bad \notin {1, 2}
                  /\ (tokens[2].len # 1 \/ tokens[2].byte0 # 0)
          IN  /\ (last.ret = "OK") = (bad = 0 /\ ~version_bad)
              /\ last.ret \in {"OK", "ERR"}
              /\ version_bad =>
                    /\ last.raised = "AWS_ERROR_CAL_UNSUPPORTED_KEY_FORMAT"
                    /\ AdvancedOncePerNode(tokens, 2, 10)
              /\ (bad # 0 /\ ~version_bad) =>
                    /\ last.raised = "AWS_ERROR_CAL_MALFORMED_ASN1_ENCOUNTERED"
                    /\ AdvancedOncePerNode(tokens, bad, 10)
              /\ (bad = 0 /\ ~version_bad) =>
                    /\ last.raised = "none"
                    /\ AdvancedOncePerNode(tokens, 0, 10)
                    /\ out.version = 0
                    /\ \A i \in 1..8 : out[PrivateFields[i]] = ViewOf(tokens, i + 2)
    /\ last.op = "load_public" =>
          LET tokens == last.input
              bad == FirstBad(tokens, 3)
          IN  /\ (last.ret = "OK") = (bad = 0)
              /\ last.ret \in {"OK", "ERR"}
              /\ bad # 0 =>
                    /\ last.raised = "AWS_ERROR_CAL_MALFORMED_ASN1_ENCOUNTERED"
                    /\ AdvancedOncePerNode(tokens, bad, 3)
              /\ bad = 0 =>
                    /\ last.raised = "none"
                    /\ AdvancedOncePerNode(tokens, 0, 3)
                    /\ out.modulus = ViewOf(tokens, 2)
                    /\ out.publicExponent = ViewOf(tokens, 3)

\* the private mapper succeeded on a stream that goes on after the key's
\* ten nodes, and the coefficient views the tenth
C15_Witness ==
    /\ last.op = "load_private"
    /\ last.ret = "OK"
    /\ Len(last.input) > 10
    /\ decoder.idx = 10
    /\ out.coefficient.node = 10

====
